---- MODULE Spec2Model ----
(***************************************************************************)
(* A model of the two beanprice price sources                              *)
(*   src/beanprice/sources/yahoo.py     (equities adapter)                 *)
(*   src/beanprice/sources/coinbase.py  (crypto adapter)                   *)
(* One synchronous caller constructs the equities adapter and then issues  *)
(* calls one at a time.  Every network request is one step: the provider's *)
(* response is chosen from a bounded set and the step runs the handler's   *)
(* code up to the next request (or to the call's end).                     *)
(*                                                                         *)
(* Conventions: a JSON key that is missing has the value Absent, a JSON    *)
(* null has the value Null.  A datetime is [ts, tz]: the instant and the   *)
(* zone ("naive" would be a datetime without zone).  A ticker is the       *)
(* sequence of its '-'-separated parts.                                    *)
(***************************************************************************)
EXTENDS Integers, Sequences, FiniteSets, TLC

\* ------------------------------------------------------------- bounds
\* instants are 0..MaxTime (the clock, requested times, chart timestamps)
MaxTime == 2
\* longest timestamp/close array of a chart response
MaxLen == 2
\* longest list-shaped data payload of the crypto provider
MaxEntries == 2

Absent == "<absent>"
Null == "<null>"
\* a JSON number that may be missing or null
Num(v) == [tag |-> "num", v |-> v]
NullNum == [tag |-> "null", v |-> 0]
AbsentNum == [tag |-> "absent", v |-> 0]

Times == 0 .. MaxTime
\* non-zero prices a provider may quote
Prices == {1, 2}
NoTime == [ts |-> -1, tz |-> "none"]
Utc(t) == [ts |-> t, tz |-> "UTC"]

\* all sequences over S of length at most n
SeqUpTo(S, n) == UNION {[1 .. k -> S] : k \in 0 .. n}

\* ------------------------------------------------------------- errors
NoError == [type |-> "none", origin |-> "none", what |-> "none", att |-> 0,
            hasTicker |-> FALSE]
\* an exception: its class, the strategy whose message it carries, the
\* message, the attempt (request) that raised it, and whether the message
\* names the ticker
Error(type, origin, what, att, hasTicker) ==
    [type |-> type, origin |-> origin, what |-> what, att |-> att,
     hasTicker |-> hasTicker]

\* the exception classes the fallback chains catch after strategy 1
\* (except (YahooError, requests.exceptions.RequestException))
CaughtPrimary(e) == e.type \in {"YahooError", "RequestException"}

\* YahooError(f"Failed to get price data for {ticker}: {str(e)}"): the
\* message of e, prefixed with the ticker
FailedToGet(e) == [e EXCEPT !.type = "YahooError", !.hasTicker = TRUE]

\* ------------------------------------------------------------- outcomes
\* what one strategy yields: st is "ok", "err" (an exception) ; on "ok" the
\* points (datetime, price) and the currency
Ok(points, currency) ==
    [st |-> "ok", err |-> NoError, points |-> points, currency |-> currency]
Raise(e) == [st |-> "err", err |-> e, points |-> <<>>, currency |-> Absent]
Point(dt, price) == [dt |-> dt, price |-> price]

\* source.SourcePrice(price, time, currency)
SourcePrice(price, time, currency) ==
    [price |-> price, time |-> time, currency |-> currency]

NoResult == [kind |-> "none", quotes |-> <<>>, err |-> NoError]
Returned(q) == [kind |-> "quote", quotes |-> <<q>>, err |-> NoError]
ReturnedList(qs) == [kind |-> "quotes", quotes |-> qs, err |-> NoError]
Raised(e) == [kind |-> "error", quotes |-> <<>>, err |-> e]

\* ------------------------------------------------------------- yahoo.py
\* requests.codes.ok
StatusOk == 200
Statuses == {StatusOk, 404}

\* a parse_response that does not count the top-level keys
ParseResponseAnyKeys(env) ==
    IF env.body # "json" THEN "Invalid JSON response from Yahoo"
    ELSE IF env.nkeys = 0 THEN "Empty response from Yahoo"
    ELSE IF env.content = Null THEN "Unexpected response format from Yahoo"
    ELSE IF env.status # StatusOk THEN "Status"
    ELSE IF env.error \notin {Absent, Null} THEN "Error fetching Yahoo data"
    ELSE IF env.result \in {Absent, "empty"} THEN "No data returned from Yahoo"
    ELSE "ok"

\* parse_response: "ok" when content["result"][0] is returned, else the
\* message of the YahooError raised.  env is the HTTP response: status, body
\* ("empty" text, "nonjson" text, or "json"), the number of top-level keys of
\* the JSON object, its first value (Null or a "dict"), and that value's
\* error and result fields.
ParseResponse(env) ==
    IF env.body # "json" THEN "Invalid JSON response from Yahoo"
    ELSE IF env.nkeys = 0 THEN "Empty response from Yahoo"
    ELSE IF env.content = Null THEN "Unexpected response format from Yahoo"
    ELSE IF env.status # StatusOk THEN "Status"
    ELSE IF env.nkeys # 1 THEN "Invalid format in response from Yahoo; many keys"
    ELSE IF env.error \notin {Absent, Null} THEN "Error fetching Yahoo data"
    ELSE IF env.result \in {Absent, "empty"} THEN "No data returned from Yahoo"
    ELSE "ok"

\* _MARKETS.get(market, None)
MARKETS(market) ==
    CASE market = "us_market" -> "USD"
      [] market = "ca_market" -> "CAD"
      [] market = "ch_market" -> "CHF"
      [] OTHER -> Null

\* a parse_currency that knows no market
parse_currency_unmapped(result) == Null

\* parse_currency(result): None (Null) when there is no market key
parse_currency(result) ==
    IF result.market = Absent THEN Null ELSE MARKETS(result.market)

\* get_latest_price, lines 311-316: the currency of a quote-endpoint result
LatestCurrency(result) ==
    LET c1 == parse_currency(result)
        c2 == IF c1 = Null /\ result.currency # Absent THEN result.currency ELSE c1
    IN  IF c2 = Null THEN "USD" ELSE c2

\* get_price_series, line 218: meta.get("currency", "USD")
SeriesCurrency(meta) ==
    IF meta.currency = Absent THEN "USD" ELSE meta.currency

\* a zone that takes the exchange's offset for granted
SeriesZoneExchange(meta) == "exchange"

\* get_price_series, lines 194-200: the zone of the series' timestamps;
\* a KeyError on either meta field selects UTC
SeriesZone(meta) ==
    IF meta.gmtoffset /\ meta.tzname THEN "exchange" ELSE "UTC"

Min(a, b) == IF a < b THEN a ELSE b

\* a filter that keeps the null closes
KeepCloseAll(price) == TRUE

\* get_price_series, line 214: the filter of the list comprehension
KeepClose(price) == price.tag # "null"

\* get_price_series, lines 209-215: zip the two arrays, drop the null closes,
\* datetime.fromtimestamp(timestamp, tz=tzone) and Decimal(price)
BuildSeries(timestamp_array, close_array, tzone) ==
    LET n == Min(Len(timestamp_array), Len(close_array))
        pairs == [i \in 1 .. n |-> <<timestamp_array[i], close_array[i]>>]
        kept == SelectSeq(pairs, LAMBDA p : KeepClose(p[2]))
    IN  [i \in 1 .. Len(kept) |->
            Point([ts |-> kept[i][1], tz |-> tzone], kept[i][2].v)]

\* get_price_series, lines 176-219: strategy 1 on the chart endpoint.
\* r.env is the HTTP response, r.first is content["result"][0].
ChartPrimary(r, att) ==
    IF ~r.env.net
    THEN Raise(Error("RequestException", "primary", "network", att, FALSE))
    ELSE IF r.env.body = "empty" \/ r.env.status # 200
    THEN Raise(Error("YahooError", "primary", "Invalid response from Yahoo",
                     att, TRUE))
    ELSE IF ParseResponse(r.env) # "ok"
    THEN Raise(Error("YahooError", "primary", ParseResponse(r.env), att, FALSE))
    ELSE IF ~r.first.hasMeta
    THEN Raise(Error("KeyError", "primary", "meta", att, FALSE))
    ELSE IF ~r.first.hasTimestamp
    THEN Raise(Error("YahooError", "primary", "Yahoo returned no data", att, TRUE))
    ELSE IF ~r.first.hasIndicators
    THEN Raise(Error("KeyError", "primary", "indicators", att, FALSE))
    ELSE Ok(BuildSeries(r.first.ts, r.first.close, SeriesZone(r.first)),
            SeriesCurrency(r.first))

\* get_latest_price, lines 279-318: strategy 1 on the quote endpoint
LatestPrimary(r, att) ==
    IF ~r.env.net
    THEN Raise(Error("RequestException", "primary", "network", att, FALSE))
    ELSE IF ParseResponse(r.env) # "ok"
    THEN Raise(Error("YahooError", "primary", ParseResponse(r.env), att, TRUE))
    ELSE IF r.first.price.tag = "absent"
    THEN Raise(Error("YahooError", "primary", "Invalid response from Yahoo",
                     att, FALSE))
    ELSE IF r.first.price.tag = "null"
    THEN Raise(Error("TypeError", "primary", "Decimal(None)", att, FALSE))
    ELSE IF ~r.first.gmtoffset \/ ~r.first.tzname \/ r.first.mtime.tag = "absent"
    THEN Raise(Error("YahooError", "primary", "Invalid response from Yahoo",
                     att, FALSE))
    ELSE Ok(<<Point([ts |-> r.first.mtime.v, tz |-> "exchange"], r.first.price.v)>>,
            LatestCurrency(r.first))

\* get_price_from_alternative_api, line 148:
\* Decimal(str(price_data.get('regularMarketPrice', {}).get('raw', 0)))
\* for a raw value that is not null
AltPrice(raw) == IF raw.tag = "absent" THEN 0 ELSE raw.v

\* a zero check that never fires
InvalidPriceNever(price) == FALSE

\* get_price_from_alternative_api, line 150
InvalidPrice(price) == price = 0

\* a strategy 2 that returns its tuple in the wrong order: the trade time
\* where the price belongs
AlternativeApiSwapped(r, att, clock) ==
    IF ~r.net \/ r.status # 200 \/ ~r.json
    THEN Raise(Error("YahooError", "alt",
                     "Error fetching data from alternative API", att, TRUE))
    ELSE IF ~r.hasResult
    THEN Raise(Error("YahooError", "alt", "No data returned", att, TRUE))
    ELSE IF ~r.hasPrice
    THEN Raise(Error("YahooError", "alt", "Price data not found", att, TRUE))
    ELSE IF r.raw.tag = "null"
    THEN Raise(Error("InvalidOperation", "alt", "Decimal('None')", att, FALSE))
    ELSE IF InvalidPrice(AltPrice(r.raw))
    THEN Raise(Error("YahooError", "alt", "Invalid price (0)", att, TRUE))
    ELSE Ok(<<Point(Utc(clock), clock)>>,
            IF r.currency = Absent THEN "USD" ELSE r.currency)

\* get_price_from_alternative_api: strategy 2.  A RequestException (network,
\* raise_for_status, requests' JSONDecodeError) becomes a YahooError;
\* Decimal('None') raises decimal.InvalidOperation, which nothing converts.
get_price_from_alternative_api(r, att, clock) ==
    IF ~r.net \/ r.status # 200 \/ ~r.json
    THEN Raise(Error("YahooError", "alt",
                     "Error fetching data from alternative API", att, TRUE))
    ELSE IF ~r.hasResult
    THEN Raise(Error("YahooError", "alt", "No data returned", att, TRUE))
    ELSE IF ~r.hasPrice
    THEN Raise(Error("YahooError", "alt", "Price data not found", att, TRUE))
    ELSE IF r.raw.tag = "null"
    THEN Raise(Error("InvalidOperation", "alt", "Decimal('None')", att, FALSE))
    ELSE IF InvalidPrice(AltPrice(r.raw))
    THEN Raise(Error("YahooError", "alt", "Invalid price (0)", att, TRUE))
    ELSE Ok(<<Point(Utc(clock), AltPrice(r.raw))>>,
            IF r.currency = Absent THEN "USD" ELSE r.currency)

\* get_price_from_yfinance: strategy 3.  Every exception inside the try
\* block, the YahooError of line 109 included, is re-raised as a YahooError.
get_price_from_yfinance(r, att, clock) ==
    IF ~r.installed
    THEN Raise(Error("YahooError", "yfinance", "yfinance library not installed",
                     att, FALSE))
    ELSE IF r.raises \/ r.price.tag # "num"
    THEN Raise(Error("YahooError", "yfinance",
                     "Error fetching data with yfinance", att, TRUE))
    ELSE Ok(<<Point(Utc(clock), r.price.v)>>,
            IF r.currency = Absent THEN "USD" ELSE r.currency)

\* the order of sorted() on (datetime, Decimal) tuples
TupleLess(a, b) ==
    a.dt.ts < b.dt.ts \/ (a.dt.ts = b.dt.ts /\ a.price < b.price)

\* sorted(series): a stable insertion sort
RECURSIVE Insert(_, _)
Insert(sorted, x) ==
    IF sorted = <<>> THEN <<x>>
    ELSE IF TupleLess(x, sorted[Len(sorted)])
         THEN Append(Insert(SubSeq(sorted, 1, Len(sorted) - 1), x),
                     sorted[Len(sorted)])
         ELSE Append(sorted, x)

\* a series used in its arrival order
SortedAsArrived(series) == series

RECURSIVE Sorted(_)
Sorted(series) ==
    IF series = <<>> THEN <<>>
    ELSE Insert(Sorted(SubSeq(series, 1, Len(series) - 1)), series[Len(series)])

\* a scan that stops only after the requested time
StopScanLate(data_dt, time) == data_dt.ts > time.ts

\* get_historical_price, line 372: if data_dt >= time: break
StopScan(data_dt, time) == data_dt.ts >= time.ts

\* get_historical_price, lines 370-374: the scan; latest is <<>> for None
RECURSIVE Scan(_, _, _, _)
Scan(sorted, i, time, latest) ==
    IF i > Len(sorted) THEN latest
    ELSE IF StopScan(sorted[i].dt, time) THEN latest
    ELSE Scan(sorted, i + 1, time, <<sorted[i]>>)

\* get_historical_price, lines 370-379, on a series that was obtained
SelectLatest(series, currency, time, att) ==
    LET latest == Scan(Sorted(series), 1, time, <<>>)
    IN  IF latest = <<>>
        THEN Raised(Error("YahooError", "select", "Could not find price before",
                          att, FALSE))
        ELSE Returned(SourcePrice(latest[1].price, latest[1].dt, currency))

\* get_daily_prices, line 386
DailyQuotes(series, currency) ==
    [i \in 1 .. Len(series) |->
        SourcePrice(series[i].price, series[i].dt, currency)]

\* ------------------------------------------------------------- coinbase.py
\* str.upper() and str.lower() on the strings of the model
Upper(s) ==
    CASE s = "btc" -> "BTC" [] s = "eth" -> "ETH"
      [] s = "usd" -> "USD" [] s = "eur" -> "EUR"
      [] OTHER -> s
Lower(s) ==
    CASE s = "BTC" -> "btc" [] s = "ETH" -> "eth"
      [] s = "USD" -> "usd" [] s = "EUR" -> "eur"
      [] OTHER -> s

\* item.get(key, "")
GetStr(v) == IF v = Absent THEN "" ELSE v

\* a filter of matching_entries that forgets the base currency
MatchesBothQuoteOnly(item, base_currency, quote_currency) ==
    Upper(GetStr(item.currency)) = quote_currency

\* fetch_quote, lines 55-56: the filter of matching_entries
MatchesBoth(item, base_currency, quote_currency) ==
    /\ Upper(GetStr(item.base)) = base_currency
    /\ Upper(GetStr(item.currency)) = quote_currency

\* fetch_quote, line 67: the filter of quote_currency_entries
MatchesQuote(item, quote_currency) ==
    Upper(GetStr(item.currency)) = quote_currency

\* price = Decimal(data_item.get("amount", 0));
\* currency = data_item.get("currency", "")
ItemQuote(data_item) ==
    Ok(<<Point(NoTime,
               IF data_item.amount.tag = "absent" THEN 0 ELSE data_item.amount.v)>>,
       GetStr(data_item.currency))

\* fetch_quote, lines 43-81: a list-shaped data payload
ListQuote(data, ticker) ==
    LET ticker_parts == [i \in 1 .. Len(ticker) |-> Lower(ticker[i])]
        base_currency == Upper(ticker_parts[1])
        quote_currency == Upper(ticker_parts[2])
        matching_entries ==
            SelectSeq(data, LAMBDA item :
                MatchesBoth(item, base_currency, quote_currency))
        quote_currency_entries ==
            SelectSeq(data, LAMBDA item : MatchesQuote(item, quote_currency))
    IN  IF Len(ticker_parts) # 2
        THEN Raise(Error("CoinbaseError", "coinbase", "Invalid ticker format",
                         1, TRUE))
        ELSE IF matching_entries # <<>> THEN ItemQuote(matching_entries[1])
        ELSE IF quote_currency_entries # <<>>
        THEN ItemQuote(quote_currency_entries[1])
        ELSE IF data # <<>> THEN ItemQuote(data[1])
        ELSE Raise(Error("CoinbaseError", "coinbase", "No price data found",
                         1, FALSE))

\* fetch_quote, lines 83-88: data is a single object (or missing); KeyError
\* and TypeError become a CoinbaseError
DictQuote(r) ==
    IF r.data = Absent \/ r.obj.amount.tag # "num" \/ r.obj.currency = Absent
    THEN Raise(Error("CoinbaseError", "coinbase", "Failed to parse response",
                     1, FALSE))
    ELSE Ok(<<Point(NoTime, r.obj.amount.v)>>, r.obj.currency)

\* fetch_quote(ticker, time): the whole function on the response r;
\* response.json() on a body that is not JSON raises requests' JSONDecodeError
fetch_quote(r, ticker, time, clock) ==
    IF r.status # StatusOk
    THEN Raised(Error("CoinbaseError", "coinbase", "Invalid response", 1, FALSE))
    ELSE IF ~r.json
    THEN Raised(Error("JSONDecodeError", "coinbase", "response.json()", 1, FALSE))
    ELSE LET o == IF r.data = "list" THEN ListQuote(r.list, ticker)
                  ELSE DictQuote(r)
         IN  IF o.st # "ok" THEN Raised(o.err)
             ELSE Returned(SourcePrice(o.points[1].price,
                                       IF time = NoTime THEN Utc(clock) ELSE time,
                                       o.currency))

\* ------------------------------------------------------------- providers
\* The responses the providers may give.  A response that fails early is
\* given once, with its unread fields at their defaults.
Env(net, status, body, nkeys, content, error, result) ==
    [net |-> net, status |-> status, body |-> body, nkeys |-> nkeys,
     content |-> content, error |-> error, result |-> result]
GoodEnv == Env(TRUE, StatusOk, "json", 1, "dict", Null, "one")
Envelopes ==
    {Env(FALSE, StatusOk, "empty", 0, Null, Absent, Absent)}
    \cup {Env(TRUE, s, b, 0, Null, Absent, Absent) :
            s \in Statuses, b \in {"empty", "nonjson", "json"}}
    \cup {Env(TRUE, s, "json", k, Null, Absent, Absent) :
            s \in Statuses, k \in {1, 2}}
    \cup {Env(TRUE, s, "json", k, "dict", e, x) :
            s \in Statuses, k \in {1, 2}, e \in {Absent, Null, "err"},
            x \in {Absent, "empty", "one"}}

Currencies == {Absent, Null, "USD", "EUR"}

\* content["result"][0] of the chart endpoint; the two arrays are parallel.
\* The arrays vary to their full length under one meta, and the meta fields
\* vary over the arrays of at most one entry (the code reads the two apart).
ChartFirst(meta, gmtoffset, tzname, currency, market, tsKey, ind, ts, close) ==
    [hasMeta |-> meta, gmtoffset |-> gmtoffset, tzname |-> tzname,
     currency |-> currency, market |-> market, hasTimestamp |-> tsKey,
     hasIndicators |-> ind, ts |-> ts, close |-> close]
DefaultChartFirst ==
    ChartFirst(TRUE, TRUE, TRUE, "USD", "us_market", TRUE, TRUE,
               <<1>>, <<Num(1)>>)
Closes == {NullNum} \cup {Num(p) : p \in Prices}
ChartFirsts ==
    {ChartFirst(m, TRUE, TRUE, "USD", "us_market", t, i, <<>>, <<>>) :
        m \in BOOLEAN, t \in BOOLEAN, i \in BOOLEAN}
    \cup UNION {
        {ChartFirst(TRUE, TRUE, TRUE, "USD", "us_market", TRUE, TRUE, ts, cl) :
            ts \in [1 .. n -> Times], cl \in [1 .. n -> Closes]} :
        n \in 0 .. MaxLen}
    \cup UNION {
        {ChartFirst(TRUE, g, z, c, mk, TRUE, TRUE, ts, cl) :
            g \in BOOLEAN, z \in BOOLEAN, c \in Currencies,
            mk \in {Absent, "ca_market"},
            ts \in [1 .. n -> Times], cl \in [1 .. n -> Closes]} :
        n \in 0 .. 1}
ChartResponses ==
    {[env |-> e, first |-> DefaultChartFirst] : e \in Envelopes}
    \cup {[env |-> GoodEnv, first |-> f] : f \in ChartFirsts}

\* content["result"][0] of the quote endpoint
QuoteFirsts ==
    [price : {AbsentNum, NullNum} \cup {Num(p) : p \in Prices},
     gmtoffset : BOOLEAN, tzname : BOOLEAN,
     mtime : {AbsentNum} \cup {Num(t) : t \in Times},
     market : {Absent, "us_market", "ca_market", "ch_market", "xx_market"},
     currency : Currencies]
DefaultQuoteFirst ==
    [price |-> Num(1), gmtoffset |-> TRUE, tzname |-> TRUE, mtime |-> Num(0),
     market |-> "us_market", currency |-> "USD"]
QuoteResponses ==
    {[env |-> e, first |-> DefaultQuoteFirst] : e \in Envelopes}
    \cup {[env |-> GoodEnv, first |-> f] : f \in QuoteFirsts}

\* the quoteSummary endpoint
Alt(net, status, json, hasResult, hasPrice, raw, currency) ==
    [net |-> net, status |-> status, json |-> json, hasResult |-> hasResult,
     hasPrice |-> hasPrice, raw |-> raw, currency |-> currency]
AltResponses ==
    {Alt(FALSE, 200, FALSE, FALSE, FALSE, AbsentNum, Absent),
     Alt(TRUE, 404, FALSE, FALSE, FALSE, AbsentNum, Absent),
     Alt(TRUE, 200, FALSE, FALSE, FALSE, AbsentNum, Absent),
     Alt(TRUE, 200, TRUE, FALSE, FALSE, AbsentNum, Absent),
     Alt(TRUE, 200, TRUE, TRUE, FALSE, AbsentNum, Absent)}
    \cup {Alt(TRUE, 200, TRUE, TRUE, TRUE, x, "USD") :
            x \in {AbsentNum, NullNum, Num(0)}}
    \cup {Alt(TRUE, 200, TRUE, TRUE, TRUE, Num(p), c) :
            p \in Prices, c \in Currencies}

\* the yfinance library: installed or not, Ticker(...).info raising or not
Yf(installed, raises, price, currency) ==
    [installed |-> installed, raises |-> raises, price |-> price,
     currency |-> currency]
YfResponses ==
    {Yf(FALSE, FALSE, AbsentNum, Absent), Yf(TRUE, TRUE, AbsentNum, Absent),
     Yf(TRUE, FALSE, AbsentNum, "USD"), Yf(TRUE, FALSE, NullNum, "USD")}
    \cup {Yf(TRUE, FALSE, Num(p), c) :
            p \in Prices \cup {0}, c \in {Absent, "USD", "EUR"}}

\* the crumb endpoint: a RequestException, or a response of some status,
\* whose text is a crumb or the body of an error page
CrumbResponses ==
    {[net |-> FALSE, status |-> StatusOk, text |-> ""],
     [net |-> TRUE, status |-> StatusOk, text |-> "crumb"],
     [net |-> TRUE, status |-> 404, text |-> "error body"]}

\* the spot-price endpoint of the crypto provider
Entries ==
    [base : {Absent, "btc", "ETH"}, currency : {Absent, "usd", "EUR"},
     amount : {AbsentNum} \cup {Num(p) : p \in Prices}]
Cb(status, json, data, obj, list) ==
    [status |-> status, json |-> json, data |-> data, obj |-> obj, list |-> list]
NoObj == [amount |-> AbsentNum, currency |-> Absent]
CbResponses ==
    {Cb(404, TRUE, Absent, NoObj, <<>>), Cb(StatusOk, FALSE, Absent, NoObj, <<>>),
     Cb(StatusOk, TRUE, Absent, NoObj, <<>>)}
    \cup {Cb(StatusOk, TRUE, "dict", [amount |-> a, currency |-> c], <<>>) :
            a \in {AbsentNum, NullNum} \cup {Num(p) : p \in Prices},
            c \in {Absent, Null, "USD", "usd"}}
    \cup {Cb(StatusOk, TRUE, "list", NoObj, l) : l \in SeqUpTo(Entries, MaxEntries)}

YahooTickers == {<<"AAPL">>}
CbTickers == {<<"BTC", "USD">>, <<"eth", "eur">>, <<"BTCUSD">>}
NoTicker == <<>>

\* The answers the providers give when they answer every call alike: one
\* response per request get_latest_price makes, up to the response that ends
\* the call.  Each strategy's responses vary under one course of the others.
QuoteFalls(q) ==
    LET o == LatestPrimary(q, 1) IN o.st # "ok" /\ CaughtPrimary(o.err)
AltFalls(a) ==
    LET o == get_price_from_alternative_api(a, 2, 0)
    IN  o.st # "ok" /\ o.err.type = "YahooError"
ScriptQuotes ==
    {q \in QuoteResponses :
        q.first.gmtoffset /\ q.first.tzname /\ q.first.mtime \in {AbsentNum, Num(0)}}
NetworkDown ==
    [env |-> Env(FALSE, StatusOk, "empty", 0, Null, Absent, Absent),
     first |-> DefaultQuoteFirst]
AltNotFound == Alt(TRUE, 404, FALSE, FALSE, FALSE, AbsentNum, Absent)
AltGood == Alt(TRUE, 200, TRUE, TRUE, TRUE, Num(1), "USD")
YfMissing == Yf(FALSE, FALSE, AbsentNum, Absent)
YahooScripts ==
    {<<q>> : q \in {x \in ScriptQuotes : ~QuoteFalls(x)}}
    \cup {<<q, AltGood>> : q \in {x \in ScriptQuotes : QuoteFalls(x)}}
    \cup {<<q, AltNotFound, YfMissing>> : q \in {x \in ScriptQuotes : QuoteFalls(x)}}
    \cup {<<NetworkDown, a>> : a \in {x \in AltResponses : ~AltFalls(x)}}
    \cup {<<NetworkDown, a, y>> :
            a \in {x \in AltResponses : AltFalls(x)}, y \in YfResponses}
CbScripts == {<<r>> : r \in {x \in CbResponses : Len(x.list) <= 1}}
Scripts ==
    {[ticker |-> t, resps |-> w] : t \in YahooTickers, w \in YahooScripts}
    \cup {[ticker |-> t, resps |-> w] : t \in CbTickers, w \in CbScripts}
NoScript == [ticker |-> NoTicker, resps |-> <<>>]

\* what a caller can compare of two results: the price and currency of each
\* Quote, or the exception; at is when the result was handed over
Kept(res, at) ==
    [kind |-> res.kind,
     quotes |-> [k \in DOMAIN res.quotes |->
                    <<res.quotes[k].price, res.quotes[k].currency>>],
     err |-> res.err, at |-> at]
NoPrev == Kept(NoResult, 0)

\* ------------------------------------------------------------- state
VARIABLES
    pc,      \* where the caller is: "new", "crumb" (inside Source.__init__),
             \* "idle", the request about to be sent ("quote", "chart", "alt",
             \* "yfinance", "coinbase"), or "done" (the call has ended)
    op,      \* the operation in progress
    ticker,  \* its ticker
    time,    \* its requested time, NoTime when it takes none
    round,   \* get_historical_price: 1 = the 5-day get_price_series,
             \* 2 = the 30-day one, 3 = the single-point strategies of 355-368
    now,     \* the clock
    crumb,   \* self.crumb
    resp,    \* the response last received
    log,     \* the attempts of the call so far: strategy and outcome
    err1,    \* e of get_latest_price / get_price_series: strategy 1's error
    errH,    \* e of get_historical_price: the error of the 5-day attempt
    result,  \* what the call returned or raised
    req,     \* the request last sent
    fetches, \* how many times the crumb endpoint was requested
    script,  \* the answers the providers give to every call, when they are
             \* to answer every call alike; NoScript when they are free
    prev     \* what the call before this one returned or raised, when kept

vars ==
    <<pc, op, ticker, time, round, now, crumb, resp, log, err1, errH, result,
      req, fetches, script, prev>>

NoResp == [none |-> TRUE]

\* a request as it is sent: the endpoint, and the crumb parameter where the
\* payload has one
Request(endpoint, c) == [endpoint |-> endpoint, crumb |-> c]
NoRequest == Request("none", Absent)

\* a quote payload that leaves the crumb out
QuotePayloadNoCrumb(c) == Request("quote", "")

\* get_latest_price, lines 280-286: the payload of the quote request
QuotePayload(c) == Request("quote", c)

\* Source.__init__, lines 265-273: the crumb kept from the crumb request
CrumbOf(r) == IF r.net THEN r.text ELSE ""

Init ==
    /\ pc = "new"
    /\ op = "none"
    /\ ticker = NoTicker
    /\ time = NoTime
    /\ round = 0
    /\ now = 0
    /\ crumb = Absent
    /\ resp = NoResp
    /\ log = <<>>
    /\ err1 = NoError
    /\ errH = NoError
    /\ result = NoResult
    /\ req = NoRequest
    /\ fetches = 0
    /\ script = NoScript
    /\ prev = NoPrev

call == <<op, ticker, time, round>>
chain == <<log, err1, errH>>
replay == <<script, prev>>

\* the class of an outcome in the log: "ok", "err" (an exception the chain
\* catches) or "crash" (one it does not)
OutClass(o) ==
    IF o.st = "ok" THEN "ok"
    ELSE IF o.err.type \in {"YahooError", "RequestException"} THEN "err"
    ELSE "crash"
Logged(s, o) == Append(log, [s |-> s, out |-> OutClass(o)])

\* Source.__init__, lines 247-262: the cookie request; a RequestException is
\* passed over
InitCookies ==
    /\ pc = "new"
    /\ \E ok \in BOOLEAN : pc' = "crumb"
    /\ req' = Request("cookies", Absent)
    /\ UNCHANGED <<call, now, crumb, resp, chain, result, fetches, replay>>

\* Source.__init__, lines 264-273: the crumb request
InitCrumb ==
    /\ pc = "crumb"
    /\ \E r \in CrumbResponses :
        /\ resp' = r
        /\ crumb' = CrumbOf(r)
    /\ req' = Request("getcrumb", Absent)
    /\ fetches' = fetches + 1
    /\ pc' = "idle"
    /\ UNCHANGED <<call, now, chain, result, replay>>

\* the clock advances between calls (a call is short against its resolution)
Tick ==
    /\ pc = "idle"
    /\ now < MaxTime
    /\ now' = now + 1
    /\ UNCHANGED <<pc, call, crumb, resp, chain, result, req, fetches, replay>>

Begin(o, t, at, first) ==
    /\ pc = "idle"
    /\ op' = o
    /\ ticker' = t
    /\ time' = at
    /\ round' = 1
    /\ pc' = first
    /\ UNCHANGED <<now, crumb, resp, chain, result, req, fetches, replay>>

\* yahoo.Source.get_latest_price(ticker) is called
GetLatestPrice == \E t \in YahooTickers : Begin("latest", t, NoTime, "quote")

\* yahoo.Source.get_historical_price(ticker, time) is called
GetHistoricalPrice ==
    \E t \in YahooTickers, at \in Times : Begin("historical", t, Utc(at), "chart")

\* yahoo.Source.get_daily_prices(ticker, time_begin, time_end) is called
GetDailyPrices == \E t \in YahooTickers : Begin("daily", t, NoTime, "chart")

\* coinbase.Source.get_latest_price(ticker) is called
CbGetLatestPrice == \E t \in CbTickers : Begin("cb_latest", t, NoTime, "coinbase")

\* coinbase.Source.get_historical_price(ticker, time) is called
CbGetHistoricalPrice ==
    \E t \in CbTickers, at \in Times : Begin("cb_historical", t, Utc(at), "coinbase")

\* the call ends: its locals (e of the except clauses) are gone
Finish(res) ==
    /\ result' = res
    /\ pc' = "done"
    /\ err1' = NoError
    /\ errH' = NoError

\* what the call does with the points a strategy produced:
\* get_latest_price 318/326/333, get_daily_prices 386,
\* get_historical_price 370-379 (rounds 1, 2) and 360/365 (round 3)
Deliver(o, att) ==
    IF op = "daily" THEN ReturnedList(DailyQuotes(o.points, o.currency))
    ELSE IF op = "historical" /\ round < 3
    THEN SelectLatest(o.points, o.currency, time, att)
    ELSE Returned(SourcePrice(o.points[1].price, o.points[1].dt, o.currency))

\* a strategy 1 that goes on to strategy 2 after it has succeeded
AfterPrimaryNoReturn(o, s) ==
    /\ log' = Logged(s, o)
    /\ IF o.st = "ok" \/ CaughtPrimary(o.err)
       THEN /\ err1' = o.err
            /\ pc' = "alt"
            /\ UNCHANGED <<errH, result>>
       ELSE Finish(Raised(o.err))
    /\ UNCHANGED <<call, now, crumb, fetches>>

\* strategy 1 has answered: return, fall back to strategy 2 (lines 221, 320),
\* or let an exception the except clause does not name escape
AfterPrimary(o, s) ==
    /\ log' = Logged(s, o)
    /\ IF o.st = "ok"
       THEN Finish(Deliver(o, Len(log) + 1))
       ELSE IF CaughtPrimary(o.err)
       THEN /\ err1' = o.err
            /\ pc' = "alt"
            /\ UNCHANGED <<errH, result>>
       ELSE Finish(Raised(o.err))
    /\ UNCHANGED <<call, now, crumb, fetches>>

\* get_latest_price, lines 279-321: the quote endpoint is requested
QuoteAnswer(r) ==
    /\ pc = "quote"
    /\ resp' = r
    /\ req' = QuotePayload(crumb)
    /\ AfterPrimary(LatestPrimary(r, Len(log) + 1), "quote")
QuoteRequest ==
    /\ pc = "quote"
    /\ \E r \in QuoteResponses : QuoteAnswer(r)
    /\ UNCHANGED replay

\* get_price_series, lines 176-222: the chart endpoint is requested
ChartRequest ==
    /\ pc = "chart"
    /\ \E r \in ChartResponses :
        /\ resp' = r
        /\ req' = Request("chart", Absent)
        /\ AfterPrimary(ChartPrimary(r, Len(log) + 1), "chart")
    /\ UNCHANGED replay

\* strategy 2 (lines 225-230, 324-328, 356-361): the alternative endpoint is
\* requested; only a YahooError leads to strategy 3
AltAnswer(r) ==
    /\ pc = "alt"
    /\ LET o == get_price_from_alternative_api(r, Len(log) + 1, now)
       IN  /\ resp' = r
           /\ log' = Logged("alt", o)
           /\ IF o.st = "ok" THEN Finish(Deliver(o, Len(log) + 1))
              ELSE IF o.err.type = "YahooError"
              THEN pc' = "yfinance" /\ UNCHANGED <<result, err1, errH>>
              ELSE Finish(Raised(o.err))
    /\ req' = Request("quoteSummary", Absent)
    /\ UNCHANGED <<call, now, crumb, fetches>>
AltRequest ==
    /\ pc = "alt"
    /\ \E r \in AltResponses : AltAnswer(r)
    /\ UNCHANGED replay

\* a strategy 3 whose failure in the 30-day attempt starts that attempt again
YfAnswerAgain(r) ==
    /\ pc = "yfinance"
    /\ LET o == get_price_from_yfinance(r, Len(log) + 1, now)
       IN  /\ resp' = r
           /\ log' = Logged("yfinance", o)
           /\ IF o.st = "ok"
              THEN Finish(Deliver(o, Len(log) + 1)) /\ UNCHANGED round
              ELSE IF op = "historical"
              THEN /\ errH' = FailedToGet(err1)
                   /\ round' = 2
                   /\ pc' = "chart"
                   /\ UNCHANGED <<result, err1>>
              ELSE Finish(Raised(FailedToGet(err1))) /\ UNCHANGED round
    /\ req' = Request("yfinance", Absent)
    /\ UNCHANGED <<op, ticker, time, now, crumb, fetches>>

\* strategy 3 (lines 233-239, 331-336, 363-368): the aggregator library is
\* called.  When it fails, get_latest_price and get_price_series raise
\* "Failed to get price data for {ticker}: {e}"; get_historical_price
\* keeps the 5-day error, widens the window, then tries the single-point
\* strategies once more and at last re-raises the 5-day error.  The response
\* held by a get_price_series that has raised is gone with its frame.
YfAnswer(r) ==
    /\ pc = "yfinance"
    /\ LET o == get_price_from_yfinance(r, Len(log) + 1, now)
       IN  /\ log' = Logged("yfinance", o)
           /\ IF o.st = "ok"
              THEN Finish(Deliver(o, Len(log) + 1)) /\ resp' = r /\ UNCHANGED round
              ELSE IF op = "historical" /\ round = 1
              THEN /\ errH' = FailedToGet(err1)
                   /\ round' = 2
                   /\ pc' = "chart"
                   /\ resp' = NoResp
                   /\ UNCHANGED <<result, err1>>
              ELSE IF op = "historical" /\ round = 2
              THEN /\ round' = 3
                   /\ pc' = "alt"
                   /\ resp' = NoResp
                   /\ UNCHANGED <<result, err1, errH>>
              ELSE IF op = "historical"
              THEN Finish(Raised(errH)) /\ resp' = r /\ UNCHANGED round
              ELSE Finish(Raised(FailedToGet(err1))) /\ resp' = r /\ UNCHANGED round
    /\ req' = Request("yfinance", Absent)
    /\ UNCHANGED <<op, ticker, time, now, crumb, fetches>>
YfRequest ==
    /\ pc = "yfinance"
    /\ \E r \in YfResponses : YfAnswer(r)
    /\ UNCHANGED replay

\* coinbase.fetch_quote: the spot-price endpoint is requested
CbAnswer(r) ==
    /\ pc = "coinbase"
    /\ resp' = r
    /\ log' = Append(log, [s |-> "coinbase",
                           out |-> IF fetch_quote(r, ticker, time, now).kind
                                      = "error" THEN "err" ELSE "ok"])
    /\ Finish(fetch_quote(r, ticker, time, now))
    /\ req' = Request("spot", Absent)
    /\ UNCHANGED <<call, now, crumb, fetches>>
CbRequest ==
    /\ pc = "coinbase"
    /\ \E r \in CbResponses : CbAnswer(r)
    /\ UNCHANGED replay

\* the call has ended; the caller is free to make the next one
Returning ==
    /\ pc = "done"
    /\ pc' = "idle"
    /\ op' = "none"
    /\ ticker' = NoTicker
    /\ time' = NoTime
    /\ round' = 0
    /\ resp' = NoResp
    /\ log' = <<>>
    /\ err1' = NoError
    /\ errH' = NoError
    /\ result' = NoResult
    /\ req' = NoRequest
    /\ UNCHANGED <<now, crumb, fetches>>
Return == Returning /\ UNCHANGED replay

\* get_latest_price is called once more, of either adapter, and the
\* providers answer as the script has it
LatestAgain ==
    /\ script.ticker \in YahooTickers
    /\ Begin("latest", script.ticker, NoTime, "quote")
CbLatestAgain ==
    /\ script.ticker \in CbTickers
    /\ Begin("cb_latest", script.ticker, NoTime, "coinbase")
Scripted == script.resps[Len(log) + 1]
QuoteReplay == pc = "quote" /\ QuoteAnswer(Scripted) /\ UNCHANGED replay
AltReplay == pc = "alt" /\ AltAnswer(Scripted) /\ UNCHANGED replay
YfReplay == pc = "yfinance" /\ YfAnswer(Scripted) /\ UNCHANGED replay
CbReplay == pc = "coinbase" /\ CbAnswer(Scripted) /\ UNCHANGED replay
\* the call has ended; the caller keeps what it got to compare the next with
ReturnKept ==
    /\ Returning
    /\ prev' = Kept(result, now)
    /\ UNCHANGED script

Next ==
    \/ InitCookies
    \/ InitCrumb
    \/ Tick
    \/ GetLatestPrice
    \/ GetHistoricalPrice
    \/ GetDailyPrices
    \/ QuoteRequest
    \/ ChartRequest
    \/ AltRequest
    \/ YfRequest
    \/ Return

\* the equities adapter: constructed, then called any number of times
Spec == Init /\ [][Next]_vars

\* the crypto adapter (it has no constructor and no state of its own)
InitCoinbase ==
    /\ pc = "idle"
    /\ op = "none"
    /\ ticker = NoTicker
    /\ time = NoTime
    /\ round = 0
    /\ now = 0
    /\ crumb = Absent
    /\ resp = NoResp
    /\ log = <<>>
    /\ err1 = NoError
    /\ errH = NoError
    /\ result = NoResult
    /\ req = NoRequest
    /\ fetches = 0
    /\ script = NoScript
    /\ prev = NoPrev

NextCoinbase ==
    \/ Tick
    \/ CbGetLatestPrice
    \/ CbGetHistoricalPrice
    \/ CbRequest
    \/ Return

SpecCoinbase == InitCoinbase /\ [][NextCoinbase]_vars

\* one instance of either adapter, its get_latest_price called again and
\* again with the same ticker while the providers answer every call alike
InitAgain ==
    /\ script \in Scripts
    /\ pc = IF script.ticker \in YahooTickers THEN "new" ELSE "idle"
    /\ op = "none"
    /\ ticker = NoTicker
    /\ time = NoTime
    /\ round = 0
    /\ now = 0
    /\ crumb = Absent
    /\ resp = NoResp
    /\ log = <<>>
    /\ err1 = NoError
    /\ errH = NoError
    /\ result = NoResult
    /\ req = NoRequest
    /\ fetches = 0
    /\ prev = NoPrev

NextAgain ==
    \/ InitCookies
    \/ InitCrumb
    \/ Tick
    \/ LatestAgain
    \/ CbLatestAgain
    \/ QuoteReplay
    \/ AltReplay
    \/ YfReplay
    \/ CbReplay
    \/ ReturnKept

SpecAgain == InitAgain /\ [][NextAgain]_vars

\* ------------------------------------------------------------- properties
Done == pc = "done"
LastAttempt == log[Len(log)]
\* the call obtained its points from strategy s
ObtainedFrom(s) ==
    /\ Done
    /\ log # <<>>
    /\ LastAttempt.s = s
    /\ LastAttempt.out = "ok"

\* the (timestamp, price) pairs of the series get_historical_price obtained,
\* read off the response that produced it
ObtainedPoints ==
    IF LastAttempt.s = "chart"
    THEN {<<resp.first.ts[i], resp.first.close[i].v>> :
            i \in {j \in DOMAIN resp.first.ts : resp.first.close[j].tag = "num"}}
    ELSE IF LastAttempt.s = "alt"
    THEN {<<now, IF resp.raw.tag = "absent" THEN 0 ELSE resp.raw.v>>}
    ELSE {<<now, resp.price.v>>}
PointsBefore == {p \in ObtainedPoints : p[1] < time.ts}
SeriesObtained ==
    /\ Done
    /\ op = "historical"
    /\ round < 3
    /\ log # <<>>
    /\ LastAttempt.out = "ok"

\* C1: get_historical_price with a requested time in the past, the chart
\* request failing whenever it is made and the alternative API answering
\* with a valid non-zero price, returns a Quote with the alternative API's
\* price and currency and the current instant as timestamp.
C1_AlternativeQuoteReturned ==
    ( /\ Done
      /\ op = "historical"
      /\ time.ts < now
      /\ \A i \in DOMAIN log :
            /\ log[i].s = "chart" => log[i].out = "err"
            /\ log[i].s = "alt" => log[i].out = "ok"
      /\ \E i \in DOMAIN log : log[i].s = "alt" )
    => result = Returned(SourcePrice(
                    resp.raw.v, Utc(now),
                    IF resp.currency = Absent THEN "USD" ELSE resp.currency))

\* C2: whenever get_historical_price obtained a series holding a point before
\* the requested time, in any arrival order, it returns the pair with the
\* greatest timestamp strictly less than the requested time; a pair at the
\* requested time is never selected.
C2_LatestStrictlyBefore ==
    (SeriesObtained /\ PointsBefore # {})
    => /\ result.kind = "quote"
       /\ <<result.quotes[1].time.ts, result.quotes[1].price>> \in PointsBefore
       /\ \A p \in PointsBefore : p[1] <= result.quotes[1].time.ts
       /\ result.quotes[1].time.ts < time.ts

\* a series that arrives out of order, with a point at the requested time and
\* a point before it
C2_Witness ==
    /\ SeriesObtained
    /\ LastAttempt.s = "chart"
    /\ Len(resp.first.ts) = 2
    /\ resp.first.ts[1] = time.ts
    /\ resp.first.ts[2] < time.ts
    /\ resp.first.close[1].tag = "num"
    /\ resp.first.close[2].tag = "num"
    /\ result.kind = "quote"
    /\ result.quotes[1].time.ts = resp.first.ts[2]

\* C9: when the series get_historical_price obtained holds no point strictly
\* before the requested time (an empty series included), the call raises
\* YahooError and returns no Quote.
C9_NoPointBeforeFails ==
    (SeriesObtained /\ PointsBefore = {})
    => /\ result.kind = "error"
       /\ result.err.type = "YahooError"
       /\ result.quotes = <<>>

\* a non-empty series whose points are all at or after the requested time
C9_Witness ==
    /\ SeriesObtained
    /\ ObtainedPoints # {}
    /\ PointsBefore = {}
    /\ \E p \in ObtainedPoints : p[1] = time.ts
    /\ result.kind = "error"

\* C5: when all three strategies fail within one call of the equities
\* adapter, the call raises strategy 1's error together with the ticker, and
\* for get_historical_price that of the first (5-day) attempt; the errors of
\* strategies 2 and 3 are never surfaced.
C5_FirstErrorSurfaced ==
    ( /\ Done
      /\ op \in {"latest", "historical", "daily"}
      /\ \A i \in DOMAIN log : log[i].out # "ok"
      /\ \A s \in {"alt", "yfinance"} : \E i \in DOMAIN log : log[i].s = s )
    => /\ result.kind = "error"
       /\ result.err.origin = "primary"
       /\ result.err.att = 1
       /\ result.err.hasTicker

\* an answer of the alternative endpoint whose price reads as zero
AltZero(r) ==
    /\ r.net /\ r.status = 200 /\ r.json /\ r.hasResult /\ r.hasPrice
    /\ r.raw \in {AbsentNum, Num(0)}

\* C6: when the alternative endpoint answers with a price of zero (or with no
\* regularMarketPrice, which reads as zero), strategy 2 has failed and the
\* aggregator is attempted next; no Quote is returned from that answer, and
\* no Quote from the alternative endpoint ever has price zero.
C6_ZeroPriceFallsThrough ==
    [][ pc = "alt" =>
          /\ AltZero(resp') => (pc' = "yfinance" /\ result' = NoResult)
          /\ result'.kind \in {"quote", "quotes"} =>
                \A k \in DOMAIN result'.quotes : result'.quotes[k].price # 0
      ]_vars

\* the alternative endpoint has answered zero and the aggregator is next
C6_Witness ==
    /\ pc = "yfinance"
    /\ AltZero(resp)
    /\ resp.raw = Num(0)
    /\ err1 # NoError

\* the indices of the non-null closes of the chart response
NonNullCloses == {j \in DOMAIN resp.first.close : resp.first.close[j].tag = "num"}
\* the index of the k-th non-null close
KthClose(k) ==
    CHOOSE i \in NonNullCloses : Cardinality({j \in NonNullCloses : j <= i}) = k

\* C8: when the chart endpoint answers successfully, get_daily_prices returns
\* one Quote per non-null close, in the order of the timestamp array, each
\* with the timestamp paired to that close, all with one currency; null
\* closes are dropped, so the result is as long as there are non-null closes.
C8_OneQuotePerClose ==
    (ObtainedFrom("chart") /\ op = "daily")
    => /\ result.kind = "quotes"
       /\ Len(result.quotes) = Cardinality(NonNullCloses)
       /\ \A k \in DOMAIN result.quotes :
            /\ result.quotes[k].price = resp.first.close[KthClose(k)].v
            /\ result.quotes[k].time.ts = resp.first.ts[KthClose(k)]
            /\ result.quotes[k].currency = result.quotes[1].currency

\* a null close before a close that is kept
C8_Witness ==
    /\ ObtainedFrom("chart")
    /\ op = "daily"
    /\ Len(resp.first.close) = 2
    /\ resp.first.close[1].tag = "null"
    /\ resp.first.close[2].tag = "num"
    /\ Len(result.quotes) = 1
    /\ result.quotes[1].price = resp.first.close[2].v

\* the currency of a result: its known market's, else its currency field,
\* else USD
MarketFirst(first) ==
    IF first.market = "us_market" THEN "USD"
    ELSE IF first.market = "ca_market" THEN "CAD"
    ELSE IF first.market = "ch_market" THEN "CHF"
    ELSE IF first.currency \notin {Absent, Null} THEN first.currency
    ELSE "USD"
\* the call returned what strategy 1 produced
PrimaryQuotes ==
    /\ (ObtainedFrom("quote") \/ ObtainedFrom("chart"))
    /\ result.kind \in {"quote", "quotes"}

\* C10 as stated: every successful primary-API result (quote endpoint and
\* chart endpoint alike) has the currency mapped from its market identifier
\* when that is known, else its explicit currency field, else USD.
C10_MarketThenCurrencyThenUSD ==
    PrimaryQuotes =>
        \A k \in DOMAIN result.quotes :
            result.quotes[k].currency = MarketFirst(resp.first)

\* C10 as amended: the quote endpoint resolves the currency market first; the
\* chart endpoint does not consult the market: the currency is the value of
\* meta's currency field when the key is there, else USD.
C10_CurrencyPerEndpoint ==
    PrimaryQuotes =>
        \A k \in DOMAIN result.quotes :
            result.quotes[k].currency =
                IF LastAttempt.s = "quote" THEN MarketFirst(resp.first)
                ELSE IF resp.first.currency # Absent THEN resp.first.currency
                ELSE "USD"

\* a chart result of a known market whose Quote has another currency
C10_Witness ==
    /\ ObtainedFrom("chart")
    /\ result.kind \in {"quote", "quotes"}
    /\ result.quotes # <<>>
    /\ resp.first.market = "ca_market"
    /\ resp.first.currency = Absent
    /\ result.quotes[1].currency = "USD"

\* ------------------------------------------------ properties, crypto adapter
ListCall ==
    /\ Done
    /\ op \in {"cb_latest", "cb_historical"}
    /\ resp.status = StatusOk
    /\ resp.json
    /\ resp.data = "list"
    /\ Len(ticker) = 2
SameCode(field, code) == field # Absent /\ Upper(field) = Upper(code)
ExactMatches ==
    {i \in DOMAIN resp.list :
        /\ SameCode(resp.list[i].base, ticker[1])
        /\ SameCode(resp.list[i].currency, ticker[2])}
QuoteMatches ==
    {i \in DOMAIN resp.list : SameCode(resp.list[i].currency, ticker[2])}
First(S) == CHOOSE i \in S : \A j \in S : i <= j
Selected ==
    IF ExactMatches # {} THEN First(ExactMatches)
    ELSE IF QuoteMatches # {} THEN First(QuoteMatches)
    ELSE 1

\* C3: with a list-shaped data payload and a BASE-QUOTE ticker, fetch_quote
\* selects the first entry matching base and quote currency (case-
\* insensitive), else the first entry matching the quote currency, else the
\* first entry; the Quote has the price and the currency of that entry (zero
\* and the empty string for a key the entry lacks).
C3_ListSelection ==
    (ListCall /\ resp.list # <<>>)
    => /\ result.kind = "quote"
       /\ result.quotes[1].price =
            (IF resp.list[Selected].amount.tag = "num"
             THEN resp.list[Selected].amount.v ELSE 0)
       /\ result.quotes[1].currency =
            (IF resp.list[Selected].currency # Absent
             THEN resp.list[Selected].currency ELSE "")

\* the exact match stands behind an entry that matches the quote currency only
C3_Witness ==
    /\ ListCall
    /\ Len(resp.list) = 2
    /\ ExactMatches = {2}
    /\ QuoteMatches = {1, 2}
    /\ resp.list[1].amount = Num(1)
    /\ resp.list[2].amount = Num(2)
    /\ result.kind = "quote"
    /\ result.quotes[1].price = 2

\* C4: every Quote either adapter returns has a price, a timezone-aware
\* timestamp and a non-empty currency code.
C4_QuoteWellFormed ==
    result.kind \in {"quote", "quotes"} =>
        \A k \in DOMAIN result.quotes :
            /\ result.quotes[k].price \in Nat
            /\ result.quotes[k].time.tz # "none"
            /\ result.quotes[k].currency \notin {"", Null, Absent}

\* C7: fetch_quote raises CoinbaseError and returns no Quote when the status
\* is not success, the body is not JSON, the data list is empty, or the
\* single data object lacks amount or currency.
C7_MalformedRaisesCoinbaseError ==
    ( /\ Done
      /\ op \in {"cb_latest", "cb_historical"}
      /\ \/ resp.status # StatusOk
         \/ ~resp.json
         \/ (resp.data = "list" /\ resp.list = <<>>)
         \/ (resp.data = "dict" /\ (resp.obj.amount.tag = "absent"
                                    \/ resp.obj.currency = Absent)) )
    => /\ result.kind = "error"
       /\ result.err.type = "CoinbaseError"
       /\ result.quotes = <<>>

\* the messages of the YahooErrors parse_response raises
ParseMessages ==
    {"Invalid JSON response from Yahoo", "Empty response from Yahoo",
     "Unexpected response format from Yahoo", "Status",
     "Invalid format in response from Yahoo; many keys",
     "Error fetching Yahoo data", "No data returned from Yahoo"}
\* the quote endpoint has just answered the first request of a call
QuoteAnswered ==
    /\ Len(log) = 1
    /\ log[1].s = "quote"
    /\ resp.env.net
\* the envelope parse_response accepts, in the words of the specification
WellFormedEnvelope(env) ==
    /\ env.body = "json"
    /\ env.nkeys = 1
    /\ env.status = StatusOk
    /\ env.error \in {Absent, Null}
    /\ env.result = "one"
\* the exception the first request of the call ended with, if any
FirstError == IF pc = "alt" THEN err1 ELSE result.err

Constructed == pc = "idle" /\ req.endpoint = "getcrumb"

\* C12: constructing the equities adapter always succeeds, whatever the
\* outcome of the cookie request and of the crumb request, and when the crumb
\* retrieval fails (no response, or a response whose status is not success)
\* the adapter's crumb is the empty string.
C12_CrumbEmptyOnFailure ==
    /\ pc = "crumb" => req.endpoint = "cookies"
    /\ req.endpoint = "getcrumb" => pc = "idle"
    /\ (Constructed /\ (~resp.net \/ resp.status # StatusOk)) => crumb = ""

\* C18: the crumb is fetched exactly once, at construction; no later call
\* changes or refetches it, and every quote-endpoint request sends the crumb
\* value set at construction.
C18_CrumbFixed ==
    [][ /\ pc \notin {"new", "crumb"}
            => (crumb' = crumb /\ fetches = 1 /\ fetches' = 1)
        /\ req'.endpoint = "quote" => req'.crumb = crumb' ]_vars

\* a quote request, made some time after construction, carries the crumb
C18_Witness ==
    /\ req.endpoint = "quote"
    /\ now > 0
    /\ crumb = "crumb"
    /\ req.crumb = "crumb"

\* the attempts of the call that used strategy s
Attempts(s) == {i \in DOMAIN log : log[i].s = s}
\* what follows attempt i: the strategy of the next attempt, the one about
\* to be made, or "none" when the call has ended
Following(i) ==
    IF i < Len(log) THEN log[i + 1].s
    ELSE IF pc \in {"quote", "chart", "alt", "yfinance"} THEN pc
    ELSE "none"

\* C14: in get_latest_price and get_price_series, whenever strategy 1 fails,
\* for any reason (network, status, malformed JSON, unexpected envelope, error
\* field, empty result, or a well-formed result lacking a required field such
\* as meta, indicators, price or time), strategy 2 is attempted before the
\* call fails.
C14_PrimaryFailureTriesAlternative ==
    \A i \in Attempts("quote") \cup Attempts("chart") :
        log[i].out # "ok" => Following(i) = "alt"

\* C15: whenever strategy 1 has failed and strategy 2 fails, for any reason
\* (network, status, non-JSON body, missing quoteSummary / result / price, a
\* zero price, or a price that is null or not numeric), strategy 3 is
\* attempted before the call fails.
C15_AlternativeFailureTriesLibrary ==
    \A i \in Attempts("alt") :
        log[i].out # "ok" => Following(i) = "yfinance"

\* C16: within a call a strategy is attempted only after every earlier
\* attempt has failed: the alternative API is requested only right after a
\* failed strategy 1 (or, in the last round of get_historical_price, after
\* the failed 30-day attempt), the library is called only right after a
\* failed alternative API, and the call ends on the first success.
C16_OnlyAfterFailure ==
    \A i \in DOMAIN log :
        /\ log[i].out = "ok" => (i = Len(log) /\ Done)
        /\ i > 1 => log[i - 1].out = "err"
        /\ log[i].s = "alt"
            => /\ i > 1
               /\ \/ log[i - 1].s \in {"quote", "chart"}
                  \/ (op = "historical" /\ round = 3 /\ log[i - 1].s = "yfinance")
        /\ log[i].s = "yfinance" => (i > 1 /\ log[i - 1].s = "alt")

\* strategy 1 failed, strategy 2 succeeded, and the library was not called
C16_Witness ==
    /\ Done
    /\ op = "latest"
    /\ Len(log) = 2
    /\ log[1] = [s |-> "quote", out |-> "err"]
    /\ log[2] = [s |-> "alt", out |-> "ok"]
    /\ result.kind = "quote"

\* the bounds of get_historical_price on its attempts: at most two chart
\* requests, the second (30-day) one only after the chart request, the
\* alternative API and the library of the 5-day attempt have all failed, and
\* at most three requests to the alternative API and to the library
BoundedAttempts ==
    /\ Cardinality(Attempts("chart")) <= 2
    /\ Cardinality(Attempts("alt")) <= 3
    /\ Cardinality(Attempts("yfinance")) <= 3
    /\ \A i \in Attempts("chart") :
          i > 1 => /\ i = 4
                   /\ log[1] = [s |-> "chart", out |-> "err"]
                   /\ log[2] = [s |-> "alt", out |-> "err"]
                   /\ log[3] = [s |-> "yfinance", out |-> "err"]

\* C17: every call of get_historical_price terminates after a bounded number
\* of attempts: each step of the call is one more attempt, and the attempts
\* stay within the bounds (chart at most twice, 30-day only after the whole
\* 5-day attempt failed, alternative API and library at most three times each).
C17_HistoricalTerminates ==
    [][ (op = "historical" /\ pc \in {"chart", "alt", "yfinance"})
            => /\ Len(log') = Len(log) + 1
               /\ BoundedAttempts'
               /\ pc' \in {"chart", "alt", "yfinance", "done"} ]_vars

\* the longest call: eight attempts, all failed
C17_Witness ==
    /\ Done
    /\ op = "historical"
    /\ Len(log) = 8
    /\ Cardinality(Attempts("chart")) = 2
    /\ Cardinality(Attempts("alt")) = 3
    /\ Cardinality(Attempts("yfinance")) = 3
    /\ result.kind = "error"

\* the chart endpoint has just answered with a result whose meta has no
\* gmtoffset and which is otherwise complete
MissingOffset ==
    /\ log # <<>>
    /\ LastAttempt.s = "chart"
    /\ resp.env.net
    /\ WellFormedEnvelope(resp.env)
    /\ resp.first.hasMeta
    /\ ~resp.first.gmtoffset
    /\ resp.first.hasTimestamp
    /\ resp.first.hasIndicators

\* C19: in get_price_series, when meta lacks gmtoffset the timestamps are
\* built in UTC and strategy 1 still succeeds: the call does not fail for it
\* and no fallback is attempted.
C19_MissingOffsetIsUTC ==
    MissingOffset
    => /\ LastAttempt.out = "ok"
       /\ Done
       /\ Following(Len(log)) = "none"
       /\ \A k \in DOMAIN result.quotes : result.quotes[k].time.tz = "UTC"

\* get_daily_prices returns a quote in UTC from a meta without gmtoffset
C19_Witness ==
    /\ MissingOffset
    /\ op = "daily"
    /\ resp.first.tzname
    /\ result.kind = "quotes"
    /\ Len(result.quotes) = 1
    /\ result.quotes[1].time.tz = "UTC"

\* the call before this one returned or raised, and this one has too
CalledAgain == Done /\ prev.kind # "none"

====
